---- MODULE Spec2Model ----
(***************************************************************************)
(* Model of src/src/cracker.rs: the preimage search against a round-based  *)
(* substitution / diffusion cipher.  crack() is modelled as a state        *)
(* machine whose steps are the calls it makes (compute_matrix, the columns *)
(* of compute_inverse, build_lookup_table, xor_match per target byte, the  *)
(* lazily enumerated Cartesian product of stage-3 matches, reverse_targets *)
(* per round and the emptiness test that ends a branch).                   *)
(*                                                                         *)
(* The source fixes the block at 32 bytes of 8 bits; the model keeps the   *)
(* same code with the block at N = 2 * HalfN bytes of BitW bits.           *)
(* Arrays, vectors and matrices are functions on 0 .. n-1 as in the source;*)
(* Vecs that grow by push are sequences.                                   *)
(***************************************************************************)
EXTENDS Integers, Sequences, FiniteSets, TLC

\* target[0..16] in the source: number of target bytes read (16 there).
HalfN == 2
\* width of a byte in bits (8 in the source).
BitW == 2
\* largest round count explored.
MaxRounds == 2

\* block length (32 in the source) and number of byte values (256 there).
N == 2 * HalfN
NB == 2 ^ BitW
Bytes == 0 .. (NB - 1)
Idx == 0 .. (N - 1)

VARIABLES target, diffusion, confusion, rounds,
          pc, matrix, current, res, col, inv, lookup,
          final_possibilities, target_read, branch,
          target_vectors, prev_vectors, round, result

vars == <<target, diffusion, confusion, rounds,
          pc, matrix, current, res, col, inv, lookup,
          final_possibilities, target_read, branch,
          target_vectors, prev_vectors, round, result>>

inputs == <<target, diffusion, confusion, rounds>>

-----------------------------------------------------------------------------
(* u8 arithmetic *)

RECURSIVE xor_bits(_, _, _)
xor_bits(a, b, w) ==
    IF w = 0 THEN 0
    ELSE ((a + b) % 2) + 2 * xor_bits(a \div 2, b \div 2, w - 1)

XorTable == [a \in Bytes, b \in Bytes |-> xor_bits(a, b, BitW)]

\* the ^ of two u8
Xor(a, b) == XorTable[a, b]

-----------------------------------------------------------------------------
(* xor_match: the nested loops over i and j, pushing in loop order *)

RECURSIVE xor_match_loop(_, _, _, _, _)
xor_match_loop(conf, char, i, j, acc) ==
    IF i = NB THEN acc
    ELSE IF j = NB THEN xor_match_loop(conf, char, i + 1, 0, acc)
    ELSE xor_match_loop(conf, char, i, j + 1,
            IF Xor(conf[i], conf[j + NB]) = char
            THEN Append(acc, <<i, j>>) ELSE acc)

RECURSIVE xor_match_same_half_loop(_, _, _, _, _)
xor_match_same_half_loop(conf, char, i, j, acc) ==
    IF i = NB THEN acc
    ELSE IF j = NB THEN xor_match_same_half_loop(conf, char, i + 1, 0, acc)
    ELSE xor_match_same_half_loop(conf, char, i, j + 1,
            IF Xor(conf[i], conf[j]) = char
            THEN Append(acc, <<i, j>>) ELSE acc)

\* variant: the second operand is taken from confusion[j], not confusion[j + 256]
xor_match_same_half(conf, char) == xor_match_same_half_loop(conf, char, 0, 0, <<>>)

xor_match(conf, char) == xor_match_loop(conf, char, 0, 0, <<>>)

-----------------------------------------------------------------------------
(* GF(2) matrices *)

\* variant: the bits of a word are taken from the top, (diffusion[i] >> (31 - j)) & 1
compute_matrix_reversed(diff) ==
    [i \in Idx |-> [j \in Idx |-> (diff[i] \div (2 ^ (N - 1 - j))) % 2]]

compute_matrix(diff) ==
    [i \in Idx |-> [j \in Idx |-> (diff[i] \div (2 ^ j)) % 2]]

RECURSIVE mult_row(_, _, _, _)
mult_row(row, vec, j, s) ==
    IF j = Cardinality(DOMAIN vec) THEN s
    ELSE mult_row(row, vec, j + 1, Xor(s, (row[j] * vec[j]) % NB))

matrix_mult(mat, vec) ==
    [i \in 0 .. (Cardinality(DOMAIN vec) - 1) |-> mult_row(mat[i], vec, 0, 0)]

swap(m, i, j) == [m EXCEPT ![i] = m[j], ![j] = m[i]]

add(m, i, j) == [m EXCEPT ![j] = [k \in DOMAIN m[j] |-> Xor(m[j][k], m[i][k])]]

RECURSIVE scan_down_unmirrored(_, _, _)
\* variant: the swap is not mirrored on res
scan_down_unmirrored(st, i, j) ==
    IF j >= N THEN st
    ELSE IF st.current[j][i] = 1
         THEN [current |-> swap(st.current, i, j), res |-> st.res]
         ELSE scan_down_unmirrored(st, i, j + 1)

\* rows j in (i+1)..32 scanned for a 1 in column i; first hit is swapped, then break
RECURSIVE scan_down(_, _, _)
scan_down(st, i, j) ==
    IF j >= N THEN st
    ELSE IF st.current[j][i] = 1
         THEN [current |-> swap(st.current, i, j), res |-> swap(st.res, i, j)]
         ELSE scan_down(st, i, j + 1)

\* for j in lo..hi: add row i to row j where current[j][i] = 1
RECURSIVE eliminate(_, _, _, _)
eliminate(st, i, j, hi) ==
    IF j >= hi THEN st
    ELSE eliminate(IF st.current[j][i] = 1
                   THEN [current |-> add(st.current, i, j), res |-> add(st.res, i, j)]
                   ELSE st,
                   i, j + 1, hi)

\* variant: a column without a pivot is skipped (continue) instead of eliminated
inverse_column_skip(st, i) ==
    LET pivoted == IF st.current[i][i] = 0 THEN scan_down(st, i, i + 1) ELSE st
        down    == eliminate(pivoted, i, i + 1, N)
    IN  IF pivoted.current[i][i] = 0 THEN st ELSE eliminate(down, i, 0, i)

\* one iteration of the loop over columns in compute_inverse
inverse_column(st, i) ==
    LET pivoted == IF st.current[i][i] = 0 THEN scan_down(st, i, i + 1) ELSE st
        down    == eliminate(pivoted, i, i + 1, N)
    IN  eliminate(down, i, 0, i)

identity_matrix == [i \in Idx |-> [j \in Idx |-> IF i = j THEN 1 ELSE 0]]

-----------------------------------------------------------------------------
(* build_lookup_table *)

RECURSIVE lookup_loop(_, _, _)
lookup_loop(conf, c, acc) ==
    IF c = NB THEN acc
    ELSE lookup_loop(conf, c + 1, [acc EXCEPT ![conf[c]] = Append(@, c)])

RECURSIVE lookup_loop_short(_, _, _)
lookup_loop_short(conf, c, acc) ==
    IF c = NB - 1 THEN acc
    ELSE lookup_loop_short(conf, c + 1, [acc EXCEPT ![conf[c]] = Append(@, c)])

\* variant: the loop over c stops one byte early (0..255)
build_lookup_table_short(conf) == lookup_loop_short(conf, 0, [b \in Bytes |-> <<>>])

build_lookup_table(conf) == lookup_loop(conf, 0, [b \in Bytes |-> <<>>])

-----------------------------------------------------------------------------
(* itertools::multi_cartesian_product: lexicographic, last position fastest *)

RECURSIVE flatten(_, _, _)
\* ss[lo] \o ... \o ss[hi]: what pushing the items of each ss[k] in turn leaves
flatten(ss, lo, hi) ==
    IF lo > hi THEN <<>>
    ELSE IF lo = hi THEN ss[lo]
    ELSE LET mid == (lo + hi) \div 2
         IN  flatten(ss, lo, mid) \o flatten(ss, mid + 1, hi)

\* every prefix of `prefixes`, in order, extended by every element of `lst`, in order
concat_map_ext(prefixes, lst) ==
    flatten([k \in 1 .. Len(prefixes) |->
                [e \in 1 .. Len(lst) |-> Append(prefixes[k], lst[e])]],
            1, Len(prefixes))

RECURSIVE product_upto(_, _)
product_upto(lists, k) ==
    IF k = 0 THEN << <<>> >>
    ELSE concat_map_ext(product_upto(lists, k - 1), lists[k])

\* lists: a sequence of sequences; result: the sequence of all choices
multi_cartesian_product(lists) == product_upto(lists, Len(lists))

\* a Vec collected from an iterator, as a vector indexed from 0
to_vec(s) == [i \in 0 .. (Len(s) - 1) |-> s[i + 1]]

-----------------------------------------------------------------------------
(* reverse_targets *)

possible_inputs_product(inverse, lkp, tv) ==
    LET preimage == matrix_mult(inverse, tv)
    IN  [p \in 1 .. Cardinality(DOMAIN preimage) |-> lkp[preimage[p - 1]]]

reverse_one(inverse, lkp, tv) ==
    LET pip == possible_inputs_product(inverse, lkp, tv)
    IN  IF \E p \in 1 .. Len(pip) : pip[p] = <<>>
        THEN <<>>
        ELSE LET prod == multi_cartesian_product(pip)
             IN  [q \in 1 .. Len(prod) |-> to_vec(prod[q])]

\* variant: an empty bucket ends the loop over the candidates (break) instead
\* of skipping the one candidate
reverse_targets_break(inverse, lkp, tvs) ==
    LET dropped == { k \in 1 .. Len(tvs) : reverse_one(inverse, lkp, tvs[k]) = <<>> }
        last    == IF dropped = {} THEN Len(tvs)
                   ELSE (CHOOSE k \in dropped : \A m \in dropped : k <= m) - 1
    IN  flatten([k \in 1 .. last |-> reverse_one(inverse, lkp, tvs[k])], 1, last)

\* for target in target_vectors.iter() { ... res.push(possibility) ... }
reverse_targets(inverse, lkp, tvs) ==
    flatten([k \in 1 .. Len(tvs) |-> reverse_one(inverse, lkp, tvs[k])], 1, Len(tvs))

-----------------------------------------------------------------------------
(* crack: the lazily enumerated product over final_possibilities *)

RECURSIVE product_len(_, _)
product_len(lists, k) ==
    IF k > Len(lists) THEN 1 ELSE Len(lists[k]) * product_len(lists, k + 1)

\* number of combinations the product iterator yields
branch_count(lists) == product_len(lists, 1)

\* the b-th combination (from 0) in the iterator's order: last list fastest
nth_possibility(lists, b) ==
    [k \in 1 .. Len(lists) |->
        lists[k][((b \div product_len(lists, k + 1)) % Len(lists[k])) + 1]]

\* variant: i and j land on each other's position
possibility_vec_swapped(possibility) ==
    [p \in Idx |-> IF (p \div 2) + 1 <= Len(possibility)
                   THEN possibility[(p \div 2) + 1][2 - (p % 2)]
                   ELSE 0]

\* possibility_vec[2*idx] = i, possibility_vec[2*idx+1] = j
possibility_vec(possibility) ==
    [p \in Idx |-> IF (p \div 2) + 1 <= Len(possibility)
                   THEN possibility[(p \div 2) + 1][(p % 2) + 1]
                   ELSE 0]

-----------------------------------------------------------------------------
(* inputs *)

S_identity == [c \in Bytes |-> c]
S_pair     == [c \in Bytes |-> IF c < 4 THEN c \div 2 ELSE c]
S_fold     == [c \in Bytes |-> IF c < 2 THEN 0 ELSE c - 1]
S_zero     == [c \in Bytes |-> 0]
S_mixed    == [c \in Bytes |-> IF c < 2 THEN 2 ELSE 1]

join(s, sp) == [c \in 0 .. (2 * NB - 1) |-> IF c < NB THEN s[c] ELSE sp[c - NB]]

ConfusionInputs ==
    { join(s, sp) : s \in {S_identity, S_pair, S_fold},
                    sp \in {S_zero, S_identity, S_mixed} }

AllOnes == (2 ^ N) - 1

D_identity == [i \in Idx |-> 2 ^ i]
D_reverse  == [i \in Idx |-> 2 ^ (N - 1 - i)]
D_cycle    == [i \in Idx |-> 2 ^ ((i + 1) % N)]
D_lower    == [i \in Idx |-> (2 ^ (i + 1)) - 1]
D_upper    == [i \in Idx |-> AllOnes - ((2 ^ i) - 1)]
D_hollow   == [i \in Idx |-> AllOnes - (2 ^ i)]
D_ones     == [i \in Idx |-> AllOnes]
D_gap      == [i \in Idx |-> IF i = 1 THEN 0 ELSE 2 ^ i]

DiffusionInputs ==
    {D_identity, D_reverse, D_cycle, D_lower, D_upper, D_hollow, D_ones, D_gap}

TargetInputs ==
    { [k \in Idx |-> IF k = 0 THEN a ELSE IF k < HalfN THEN b ELSE c] :
        a \in {0, 2}, b \in {0, NB - 1}, c \in {0, NB - 1} }

-----------------------------------------------------------------------------
(* the state machine of crack *)

Init ==
    /\ target \in TargetInputs
    /\ diffusion \in DiffusionInputs
    /\ confusion \in ConfusionInputs
    /\ rounds \in 0 .. MaxRounds
    /\ pc = "compute_matrix"
    /\ matrix = <<>>
    /\ current = <<>>
    /\ res = <<>>
    /\ col = 0
    /\ inv = <<>>
    /\ lookup = <<>>
    /\ final_possibilities = <<>>
    /\ target_read = {}
    /\ branch = 0
    /\ target_vectors = <<>>
    /\ prev_vectors = <<>>
    /\ round = 0
    /\ result = <<>>

\* let matrix = compute_matrix(&diffusion); entry of compute_inverse
ComputeMatrix ==
    /\ pc = "compute_matrix"
    /\ matrix' = compute_matrix(diffusion)
    /\ current' = compute_matrix(diffusion)
    /\ res' = identity_matrix
    /\ col' = 0
    /\ pc' = "compute_inverse"
    /\ UNCHANGED <<inputs, inv, lookup, final_possibilities, target_read,
                   branch, target_vectors, prev_vectors, round, result>>

\* one column of compute_inverse
InverseColumn ==
    /\ pc = "compute_inverse"
    /\ col < N
    /\ LET st == inverse_column([current |-> current, res |-> res], col)
       IN  /\ current' = st.current
           /\ res' = st.res
    /\ col' = col + 1
    /\ UNCHANGED <<inputs, pc, matrix, inv, lookup, final_possibilities,
                   target_read, branch, target_vectors, prev_vectors, round, result>>

\* return res; let inv = ...
InverseReturn ==
    /\ pc = "compute_inverse"
    /\ col = N
    /\ inv' = res
    /\ pc' = "build_lookup_table"
    /\ UNCHANGED <<inputs, matrix, current, res, col, lookup, final_possibilities,
                   target_read, branch, target_vectors, prev_vectors, round, result>>

BuildLookup ==
    /\ pc = "build_lookup_table"
    /\ lookup' = build_lookup_table(confusion)
    /\ pc' = "xor_match"
    /\ UNCHANGED <<inputs, matrix, current, res, col, inv, final_possibilities,
                   target_read, branch, target_vectors, prev_vectors, round, result>>

\* variant: the slice read is target[16..32]
XorMatchStep_upper ==
    /\ pc = "xor_match"
    /\ Len(final_possibilities) < HalfN
    /\ LET k == Len(final_possibilities) + HalfN
       IN  /\ final_possibilities' =
                 Append(final_possibilities, xor_match(confusion, target[k]))
           /\ target_read' = target_read \cup {k}
    /\ UNCHANGED <<inputs, pc, matrix, current, res, col, inv, lookup,
                   branch, target_vectors, prev_vectors, round, result>>

\* for c in &target[0..16] { final_possibilities.push(xor_match(&confusion, *c)) }
XorMatchStep ==
    /\ pc = "xor_match"
    /\ Len(final_possibilities) < HalfN
    /\ LET k == Len(final_possibilities)
       IN  /\ final_possibilities' =
                 Append(final_possibilities, xor_match(confusion, target[k]))
           /\ target_read' = target_read \cup {k}
    /\ UNCHANGED <<inputs, pc, matrix, current, res, col, inv, lookup,
                   branch, target_vectors, prev_vectors, round, result>>

\* variant: the slice read is target[0..15], the loop ends one byte early
XorMatchDone_early ==
    /\ pc = "xor_match"
    /\ Len(final_possibilities) = HalfN - 1
    /\ branch' = 0
    /\ pc' = "product"
    /\ UNCHANGED <<inputs, matrix, current, res, col, inv, lookup,
                   final_possibilities, target_read, target_vectors,
                   prev_vectors, round, result>>

XorMatchDone ==
    /\ pc = "xor_match"
    /\ Len(final_possibilities) = HalfN
    /\ branch' = 0
    /\ pc' = "product"
    /\ UNCHANGED <<inputs, matrix, current, res, col, inv, lookup,
                   final_possibilities, target_read, target_vectors,
                   prev_vectors, round, result>>

\* the product iterator yields the next possibility; target_vectors = vec![possibility_vec]
NextBranch ==
    /\ pc = "product"
    /\ branch < branch_count(final_possibilities)
    /\ target_vectors' =
         << possibility_vec(nth_possibility(final_possibilities, branch)) >>
    /\ prev_vectors' = <<>>
    /\ round' = 0
    /\ pc' = "reverse"
    /\ UNCHANGED <<inputs, matrix, current, res, col, inv, lookup,
                   final_possibilities, target_read, branch, result>>

\* target_vectors = reverse_targets(&inv, &lookup, &target_vectors)
ReverseRound ==
    /\ pc = "reverse"
    /\ round < rounds
    /\ target_vectors' = reverse_targets(inv, lookup, target_vectors)
    /\ prev_vectors' = target_vectors
    /\ round' = round + 1
    /\ UNCHANGED <<inputs, pc, matrix, current, res, col, inv, lookup,
                   final_possibilities, target_read, branch, result>>

\* variant: the branch returns without the emptiness test
BranchReturn_unchecked ==
    /\ pc = "reverse"
    /\ round = rounds
    /\ result' = target_vectors
    /\ pc' = "done"
    /\ UNCHANGED <<inputs, matrix, current, res, col, inv, lookup,
                   final_possibilities, target_read, branch,
                   target_vectors, prev_vectors, round>>

\* if !target_vectors.is_empty() { return target_vectors; }
BranchReturn ==
    /\ pc = "reverse"
    /\ round = rounds
    /\ target_vectors # <<>>
    /\ result' = target_vectors
    /\ pc' = "done"
    /\ UNCHANGED <<inputs, matrix, current, res, col, inv, lookup,
                   final_possibilities, target_read, branch,
                   target_vectors, prev_vectors, round>>

\* the preimage is empty: continue to another final vector
BranchEmpty ==
    /\ pc = "reverse"
    /\ round = rounds
    /\ target_vectors = <<>>
    /\ branch' = branch + 1
    /\ pc' = "product"
    /\ UNCHANGED <<inputs, matrix, current, res, col, inv, lookup,
                   final_possibilities, target_read,
                   target_vectors, prev_vectors, round, result>>

\* the product is exhausted: return Vec::new()
ReturnEmpty ==
    /\ pc = "product"
    /\ branch = branch_count(final_possibilities)
    /\ result' = <<>>
    /\ pc' = "done"
    /\ UNCHANGED <<inputs, matrix, current, res, col, inv, lookup,
                   final_possibilities, target_read, branch,
                   target_vectors, prev_vectors, round>>

Next ==
    \/ ComputeMatrix
    \/ InverseColumn
    \/ InverseReturn
    \/ BuildLookup
    \/ XorMatchStep
    \/ XorMatchDone
    \/ NextBranch
    \/ ReverseRound
    \/ BranchReturn
    \/ BranchEmpty
    \/ ReturnEmpty

Spec == Init /\ [][Next]_vars

-----------------------------------------------------------------------------
(* compute_inverse on its own: compute_matrix, the columns, the return *)

\* row i of the matrix is one of four words: the unit word, the shifted unit
\* word, the low bits up to i, every bit but i
RowInputs(i) ==
    << 2 ^ i, 2 ^ ((i + 1) % N), (2 ^ (i + 1)) - 1, AllOnes - (2 ^ i) >>

MixedDiffusionInputs ==
    { [i \in Idx |-> RowInputs(i)[c[i]]] : c \in [Idx -> 1 .. 4] }

InitInverse ==
    /\ target = [k \in Idx |-> 0]
    /\ diffusion \in MixedDiffusionInputs
    /\ confusion = join(S_identity, S_zero)
    /\ rounds = 0
    /\ pc = "compute_matrix"
    /\ matrix = <<>>
    /\ current = <<>>
    /\ res = <<>>
    /\ col = 0
    /\ inv = <<>>
    /\ lookup = <<>>
    /\ final_possibilities = <<>>
    /\ target_read = {}
    /\ branch = 0
    /\ target_vectors = <<>>
    /\ prev_vectors = <<>>
    /\ round = 0
    /\ result = <<>>

NextInverse ==
    \/ ComputeMatrix
    \/ InverseColumn
    \/ InverseReturn

SpecInverse == InitInverse /\ [][NextInverse]_vars

-----------------------------------------------------------------------------
(* vocabulary of the properties *)

SeqSet(s) == { s[x] : x \in 1 .. Len(s) }

\* f itself, held as a table: f is evaluated once and not again at
\* every application
Evaluated(f) == f @@ <<>>

ZeroVec == [k \in Idx |-> 0]

BitVectors == [Idx -> {0, 1}]

\* M is invertible over GF(2): its kernel on bit vectors is trivial
Invertible(m) ==
    \A x \in BitVectors : x # ZeroVec => matrix_mult(m, x) # ZeroVec

\* byte vectors the inverse is tested on: the multiples of the unit vectors and
\* the vectors k |-> a * k + b (mod 256)
ProbeVectors ==
    { [k \in Idx |-> IF k = j THEN b ELSE 0] : j \in Idx, b \in Bytes }
    \cup { [k \in Idx |-> (a * k + b) % NB] : a \in Bytes, b \in Bytes }

\* lexicographic order on pairs
PairLess(a, b) == a[1] < b[1] \/ (a[1] = b[1] /\ a[2] < b[2])

\* compute_inverse has returned
InverseDone == pc \notin {"compute_matrix", "compute_inverse"}

-----------------------------------------------------------------------------
\* C2: inverse correctness.  Once compute_inverse has returned for an
\* invertible matrix M, matrix_mult(inv, matrix_mult(M, x)) = x for every
\* tested byte vector x, also when a zero diagonal entry forced a row swap.
C2_InverseCorrect ==
    (pc = "build_lookup_table" /\ Invertible(matrix)) =>
        \A x \in ProbeVectors : matrix_mult(inv, matrix_mult(matrix, x)) = x

\* an invertible matrix whose first diagonal entry is 0 (a swap was needed) and
\* which is no permutation matrix has been inverted
C2_Witness ==
    /\ pc = "build_lookup_table"
    /\ Invertible(matrix)
    /\ matrix[0][0] = 0
    /\ \E i \in Idx : Cardinality({j \in Idx : matrix[i][j] = 1}) > 1

\* C3: stage-3 exhaustiveness.  Every list pushed by xor_match holds exactly
\* the pairs (i, j) with confusion[i] XOR confusion[j + 256] = target byte,
\* each once, in ascending (i, j) order.
C3_XorMatchExact ==
    (pc = "xor_match") =>
    \A k \in 1 .. Len(final_possibilities) :
        LET m == final_possibilities[k]
            c == target[k - 1]
        IN  /\ SeqSet(m) = { ij \in Bytes \X Bytes :
                               Xor(confusion[ij[1]], confusion[ij[2] + NB]) = c }
            /\ \A x \in 1 .. Len(m) : \A y \in 1 .. Len(m) :
                   x < y => PairLess(m[x], m[y])

\* a match list that is neither empty nor the whole square has been pushed
C3_Witness ==
    /\ pc = "xor_match"
    /\ Len(final_possibilities) = HalfN
    /\ \E k \in 1 .. Len(final_possibilities) :
        /\ Len(final_possibilities[k]) > 1
        /\ Len(final_possibilities[k]) < NB * NB
        /\ \E x \in 1 .. Len(final_possibilities[k]) :
               final_possibilities[k][x][1] # final_possibilities[k][x][2]

\* C8: lookup completeness.  The index has one bucket per byte value; bucket b
\* holds exactly the bytes c with confusion[c] = b, each once, ascending; so
\* every byte lies in exactly one bucket, values S never produces have empty
\* buckets and the second half of the table does not influence the index.
C8_LookupComplete ==
    (pc = "xor_match") =>
        /\ DOMAIN lookup = Bytes
        /\ \A b \in Bytes :
            /\ SeqSet(lookup[b]) = { c \in Bytes : confusion[c] = b }
            /\ \A x \in 1 .. Len(lookup[b]) : \A y \in 1 .. Len(lookup[b]) :
                   x < y => lookup[b][x] < lookup[b][y]
        /\ \A c \in Bytes :
               Cardinality({ b \in Bytes : c \in SeqSet(lookup[b]) }) = 1
        /\ lookup = build_lookup_table(join([c \in Bytes |-> confusion[c]], S_zero))

\* an index with an empty bucket, a bucket of two and the last byte indexed
C8_Witness ==
    /\ pc = "xor_match"
    /\ \E b \in Bytes : lookup[b] = <<>>
    /\ \E b \in Bytes : Len(lookup[b]) = 2
    /\ \E b \in Bytes : Len(lookup[b]) = 1 /\ lookup[b][1] = NB - 1
    /\ \E c \in Bytes : confusion[c + NB] # 0

-----------------------------------------------------------------------------
(* round reversal, stated without the loops *)

\* the bucket of every position of the preimage of v under the inverse in use
Buckets(v) == [i \in Idx |-> lookup[matrix_mult(inv, v)[i]]]

RECURSIVE SizeProduct(_, _)
SizeProduct(bk, i) == IF i = N THEN 1 ELSE Len(bk[i]) * SizeProduct(bk, i + 1)

\* number of vectors candidate v contributes: the product of its bucket sizes
BlockSize(v) == SizeProduct(Buckets(v), 0)

\* the vectors off+1 .. off+sz of the output are sz distinct vectors drawn
\* position-wise from the buckets bk
BlockOk(bk, sz, off) ==
    /\ off + sz <= Len(target_vectors)
    /\ \A q \in 1 .. sz : DOMAIN target_vectors[off + q] = Idx
    /\ \A i \in Idx :
         LET allowed == SeqSet(bk[i])
         IN  \A q \in 1 .. sz : target_vectors[off + q][i] \in allowed
    /\ Cardinality({ target_vectors[off + q] : q \in 1 .. sz }) = sz

RECURSIVE BlocksEnd(_, _, _, _)
\* where the blocks of the candidates lo .. hi end when they start after `off`
\* and every one is as BlockOk asks; -1 when one is not
BlocksEnd(cands, lo, hi, off) ==
    IF lo > hi THEN off
    ELSE IF lo = hi
         THEN LET pre == Evaluated(matrix_mult(inv, cands[lo]))
                  bk  == [i \in Idx |-> lookup[pre[i]]]
                  sz  == SizeProduct(bk, 0)
              IN  IF BlockOk(bk, sz, off) THEN off + sz ELSE -1
    ELSE LET mid  == (lo + hi) \div 2
             left == BlocksEnd(cands, lo, mid, off)
         IN  IF left < 0 THEN -1 ELSE BlocksEnd(cands, mid + 1, hi, left)

\* C4: reverse_targets returns, candidate by candidate in input order, the full
\* Cartesian product of the buckets of the candidate's preimage: nothing for a
\* candidate with an empty bucket, and otherwise (product of the bucket sizes)
\* pairwise distinct vectors, each drawn position-wise from the buckets.
C4_FullProduct ==
    (pc = "reverse" /\ round > 0) =>
        BlocksEnd(prev_vectors, 1, Len(prev_vectors), 0) = Len(target_vectors)

\* a call on several candidates of which one is dropped for an empty bucket
\* while a later one fans out
C4_Witness ==
    /\ pc = "reverse"
    /\ round > 0
    /\ \E k \in 1 .. Len(prev_vectors) : \E m \in 1 .. Len(prev_vectors) :
         /\ k < m
         /\ BlockSize(prev_vectors[k]) = 0
         /\ BlockSize(prev_vectors[m]) > 1

\* the fan-out example: one candidate, two positions with two choices each and
\* one choice everywhere else, four vectors out
C4_FourVectors ==
    /\ pc = "reverse"
    /\ round > 0
    /\ Len(prev_vectors) = 1
    /\ Cardinality({ i \in Idx : Len(Buckets(prev_vectors[1])[i]) = 2 }) = 2
    /\ Cardinality({ i \in Idx : Len(Buckets(prev_vectors[1])[i]) = 1 }) = N - 2
    /\ Len(target_vectors) = 4

-----------------------------------------------------------------------------
(* crack, stated without the state machine *)

RECURSIVE reverse_k(_, _)
\* reverse_targets applied k times
reverse_k(tvs, k) ==
    IF k = 0 THEN tvs ELSE reverse_k(reverse_targets(inv, lookup, tvs), k - 1)

\* the b-th stage-3 assembled vector
Assembled(b) == possibility_vec(nth_possibility(final_possibilities, b))

\* what the reversal sequence of branch b ends with
BranchResult(b) == reverse_k(<< Assembled(b) >>, rounds)

BranchCount == branch_count(final_possibilities)

\* C5: short-circuit across branches.  Branches are taken in the order of the
\* Cartesian product, each gets exactly `rounds` reversals, and crack returns
\* the candidate set of the first branch whose reversal sequence ends
\* non-empty; it returns the empty list exactly when every branch ends empty.
C5_FirstBranchWins ==
    /\ (pc = "product" /\ branch > 0) => (round = rounds /\ target_vectors = <<>>)
    /\ (pc = "done") =>
        /\ branch <= BranchCount
        /\ \A b \in 0 .. (branch - 1) : BranchResult(b) = <<>>
        /\ (branch < BranchCount) =>
             (round = rounds /\ result # <<>> /\ result = BranchResult(branch))
        /\ (result = <<>>) <=> (branch = BranchCount)

\* crack returned from a branch that is neither the first nor the last, after
\* at least one round
C5_Witness ==
    /\ pc = "done"
    /\ rounds > 0
    /\ branch > 0
    /\ branch < BranchCount - 1
    /\ result # <<>>

\* some target byte among those read has no stage-3 match
SomeMatchSetEmpty ==
    LET second == { confusion[j + NB] : j \in Bytes }
    IN  \E k \in 0 .. (HalfN - 1) :
            \A i \in Bytes : Xor(confusion[i], target[k]) \notin second

\* C6: empty propagation.  When one of the stage-3 match sets is empty, crack
\* enumerates no branch (it never reverses anything) and returns the empty
\* list, for every round count, 0 included.
C6_EmptyPropagation ==
    SomeMatchSetEmpty =>
        /\ pc # "reverse"
        /\ branch = 0
        /\ result = <<>>
        /\ target_vectors = <<>>
        /\ (pc \in {"product", "done"}) => BranchCount = 0

\* crack returned for a target whose last byte has no match while its first has
C6_Witness ==
    /\ pc = "done"
    /\ SomeMatchSetEmpty
    /\ rounds = 0
    /\ final_possibilities[1] # <<>>
    /\ final_possibilities[HalfN] = <<>>

-----------------------------------------------------------------------------
(* the cipher run forwards, as the comments of the source describe it:
   stage 1 substitutes every byte through confusion[0..256], stage 2 multiplies
   by the diffusion matrix, stage 3 combines the byte pairs *)

substitute(x) == [i \in DOMAIN x |-> confusion[x[i]]]

diffuse(x) == matrix_mult(matrix, x)

combine(x) ==
    [k \in 0 .. ((Cardinality(DOMAIN x) \div 2) - 1) |->
        Xor(confusion[x[2 * k]], confusion[x[2 * k + 1] + NB])]

RECURSIVE forward_rounds(_, _)
\* (substitute, then diffuse) k times
forward_rounds(x, k) ==
    IF k = 0 THEN x ELSE forward_rounds(Evaluated(diffuse(substitute(x))), k - 1)

RECURSIVE forward_pipeline(_, _)
\* (substitute, then diffuse, then combine) k times
forward_pipeline(x, k) ==
    IF k = 0 THEN x ELSE forward_pipeline(Evaluated(combine(diffuse(substitute(x)))), k - 1)

\* the target bytes crack reads
TargetRead == [k \in 0 .. (HalfN - 1) |-> target[k]]

\* C1 as stated, read in its most favourable way: every returned candidate, put
\* through the whole pipeline (substitution, diffusion, combination) `rounds`
\* times, reproduces the target; only rounds >= 1 and invertible matrices are
\* looked at and the comparison is on the bytes the pipeline leaves.
C1_RoundTripWholePipeline ==
    (pc = "done" /\ Invertible(matrix) /\ rounds >= 1) =>
        \A v \in SeqSet(result) :
            LET out == forward_pipeline(v, rounds)
            IN  out = [i \in DOMAIN out |-> target[i]]

\* C1 (amended): with an invertible diffusion matrix, every returned candidate
\* put through (substitution, diffusion) `rounds` times and then through the
\* combination stage once reproduces the first HalfN bytes of the target.
C1_RoundTrip ==
    (pc = "done" /\ Invertible(matrix)) =>
        \A v \in SeqSet(result) : combine(forward_rounds(v, rounds)) = TargetRead

\* crack returned several candidates after two rounds through a matrix that is
\* not a permutation and a substitution that is not injective
C1_Witness ==
    /\ pc = "done"
    /\ Invertible(matrix)
    /\ rounds = 2
    /\ Len(result) > 1
    /\ \E i \in Idx : Cardinality({j \in Idx : matrix[i][j] = 1}) > 1
    /\ \E v \in SeqSet(result) : v # ZeroVec

-----------------------------------------------------------------------------
\* the scenario of the spec: identity substitution, S' = 0, identity diffusion,
\* all-zero target, one round
Scenario ==
    /\ confusion = join(S_identity, S_zero)
    /\ diffusion = D_identity
    /\ target = ZeroVec
    /\ rounds = 1

AllAssembled == { Assembled(b) : b \in 0 .. (BranchCount - 1) }

\* C7 as stated: in the scenario the result set is the set of all stage-3
\* assembled vectors.
C7_ResultIsAllAssembled ==
    (Scenario /\ pc = "done") => SeqSet(result) = AllAssembled

\* C7 (amended): in the scenario each match list is every pair (0, j), the
\* round-reversal step returns each assembled vector unchanged, and crack
\* returns the single first assembled vector (all zeros), not all of them.
C7_ResultIsFirstAssembled ==
    (Scenario /\ pc = "done") =>
        /\ \A k \in 1 .. HalfN :
               final_possibilities[k] = [j \in 1 .. NB |-> <<0, j - 1>>]
        /\ BranchCount = NB ^ HalfN
        /\ \A b \in 0 .. (BranchCount - 1) :
               reverse_targets(inv, lookup, << Assembled(b) >>) = << Assembled(b) >>
        /\ branch = 0
        /\ result = << Assembled(0) >>
        /\ Assembled(0) = ZeroVec

C7_Witness == Scenario /\ pc = "done" /\ Len(result) = 1 /\ BranchCount > 1

-----------------------------------------------------------------------------
UnitVectors == { [k \in Idx |-> IF k = j THEN 1 ELSE 0] : j \in Idx }

\* column i of the working matrix has no 1 on or below the diagonal
NoPivot(cur, i) == cur[i][i] = 0 /\ \A j \in (i + 1) .. (N - 1) : cur[j][i] = 0

RowXor(a, b) == [k \in Idx |-> Xor(a[k], b[k])]

\* the column step of compute_inverse when no pivot is found: no error, no
\* swap (row col and the rows below stay), the rows above are still eliminated
C9_Step ==
    (pc = "compute_inverse" /\ col < N /\ NoPivot(current, col)) =>
        /\ pc' = "compute_inverse"
        /\ col' = col + 1
        /\ \A j \in col .. (N - 1) : current'[j] = current[j] /\ res'[j] = res[j]
        /\ \A j \in 0 .. (col - 1) :
             IF current[j][col] = 1
             THEN /\ current'[j] = RowXor(current[j], current[col])
                  /\ res'[j] = RowXor(res[j], res[col])
             ELSE current'[j] = current[j] /\ res'[j] = res[j]
        /\ ~Invertible(matrix)

\* what compute_inverse returned for a singular matrix: a bit matrix R with
\* R * M # identity, which the reversal then uses as it is
C9_Returned ==
    /\ (pc = "build_lookup_table" /\ ~Invertible(matrix)) =>
        /\ inv = res
        /\ \A i \in Idx : \A j \in Idx : inv[i][j] \in {0, 1}
        /\ \E e \in UnitVectors : matrix_mult(inv, matrix_mult(matrix, e)) # e
    /\ (pc = "reverse" /\ round > 0) =>
        target_vectors = reverse_targets(res, lookup, prev_vectors)

-----------------------------------------------------------------------------
\* C10: soundness of crack as coded.  With an invertible diffusion matrix every
\* returned vector, substituted and diffused `rounds` times and then combined
\* once, gives the first HalfN target bytes; for rounds = 0 the result is the
\* single first assembled vector; the target bytes from HalfN on are never read.
C10_Soundness ==
    /\ target_read \subseteq 0 .. (HalfN - 1)
    /\ (pc = "done") =>
        /\ target_read = 0 .. (HalfN - 1)
        /\ (rounds = 0 /\ BranchCount > 0) => result = << Assembled(0) >>
        /\ Invertible(matrix) =>
             \A x \in 1 .. Len(result) :
                 /\ DOMAIN result[x] = Idx
                 /\ LET y == forward_rounds(result[x], rounds)
                    IN  \A k \in 0 .. (HalfN - 1) :
                          Xor(confusion[y[2 * k]], confusion[y[2 * k + 1] + NB]) = target[k]

\* crack returned after one round or more for a target whose unread bytes are
\* not zero, and separately the rounds = 0 case is covered by C10_ZeroRounds
C10_Witness ==
    /\ pc = "done"
    /\ Invertible(matrix)
    /\ rounds > 0
    /\ result # <<>>
    /\ target[N - 1] # 0
    /\ \E i \in Idx : matrix[i][i] = 0

C10_ZeroRounds ==
    /\ pc = "done"
    /\ rounds = 0
    /\ Len(result) = 1
    /\ BranchCount > 1

====
